---- MODULE Spec2Model ----
(***************************************************************************)
(* Model of telegraf/zpool_influxdb.c: a one-shot collector that walks the *)
(* ZFS pools, and prints for each pool one "zpool_stats" line and at most  *)
(* one "zpool_scan_stats" line in influxdb line protocol.                  *)
(*                                                                         *)
(* Strings are sequences of one-character strings (without the NUL).       *)
(* uint64_t values are kept at their full width: a value is a sequence of  *)
(* four 16-bit limbs, least significant first, and the arithmetic below is *)
(* arithmetic modulo 2^64.                                                 *)
(*                                                                         *)
(* The model covers runs in which libzfs_init() returned a handle and      *)
(* malloc() did not fail.  The build modelled is the one in which neither  *)
(* EZFS_SCRUB_PAUSED nor POOL_SCAN_REBUILD is a preprocessor macro (both   *)
(* are enum members in libzfs, so the #else branches are compiled).        *)
(***************************************************************************)
EXTENDS Integers, Sequences, FiniteSets, TLC

VARIABLES
    pc,         \* position of the program or of the function under check
    arg,        \* argument of the function under check
    ret,        \* what the function under check returned
    data,       \* argv[1], or NULL when no pool name was given
    calls,      \* the calls of print_stats made so far by zpool_iter
    out,        \* the lines written to standard output so far
    exit_code   \* the value main returned

vars == <<pc, arg, ret, data, calls, out, exit_code>>

\* A pointer is the sequence of what it points to: empty for NULL.
NULL == <<>>
Ptr(x) == <<x>>
Deref(p) == p[1]

(***************************************************************************)
(* Bounds of the model.                                                    *)
(***************************************************************************)
MaxLen == 3       \* longest string enumerated in full over Alphabet
MaxVal == 2       \* counters are drawn from 0..MaxVal and from the large values
MaxPools == 2     \* most pools zpool_iter walks in a run

(***************************************************************************)
(* uint64_t                                                                *)
(***************************************************************************)
LimbBits == 16
Limb == 2 ^ LimbBits
HalfLimb == 2 ^ (LimbBits - 1)
TopLimb == Limb - 1

U(n) == <<n % Limb, (n \div Limb) % Limb, 0, 0>>
U64_MAX == <<TopLimb, TopLimb, TopLimb, TopLimb>>
INT64_MIN == <<0, 0, 0, HalfLimb>>

IsZero(a) == a = <<0, 0, 0, 0>>

Lt64(a, b) ==
    IF a[4] # b[4] THEN a[4] < b[4]
    ELSE IF a[3] # b[3] THEN a[3] < b[3]
    ELSE IF a[2] # b[2] THEN a[2] < b[2]
    ELSE a[1] < b[1]

Le64(a, b) == a = b \/ Lt64(a, b)

\* a - b modulo 2^64
Sub64(a, b) ==
    LET d1 == a[1] - b[1]
        c1 == IF d1 < 0 THEN 1 ELSE 0
        d2 == a[2] - b[2] - c1
        c2 == IF d2 < 0 THEN 1 ELSE 0
        d3 == a[3] - b[3] - c2
        c3 == IF d3 < 0 THEN 1 ELSE 0
        d4 == a[4] - b[4] - c3
    IN  <<(d1 + Limb) % Limb, (d2 + Limb) % Limb,
          (d3 + Limb) % Limb, (d4 + Limb) % Limb>>

\* a + b modulo 2^64
Add64(a, b) ==
    LET s1 == a[1] + b[1]
        s2 == a[2] + b[2] + (s1 \div Limb)
        s3 == a[3] + b[3] + (s2 \div Limb)
        s4 == a[4] + b[4] + (s3 \div Limb)
    IN  <<s1 % Limb, s2 % Limb, s3 % Limb, s4 % Limb>>

\* the value read as an int64_t is greater than 0
Positive64(a) == ~IsZero(a) /\ a[4] < HalfLimb

Bit(a, i) == (a[(i \div LimbBits) + 1] \div (2 ^ (i % LimbBits))) % 2

SetBit(a, i) ==
    [a EXCEPT ![(i \div LimbBits) + 1] = @ + 2 ^ (i % LimbBits)]

\* 2 * a + low modulo 2^64
Shl1(a, low) ==
    <<(2 * a[1] + low) % Limb,
      (2 * a[2] + (a[1] \div HalfLimb)) % Limb,
      (2 * a[3] + (a[2] \div HalfLimb)) % Limb,
      (2 * a[4] + (a[3] \div HalfLimb)) % Limb>>

\* one round of shift and subtract for bit i of a: st holds the quotient q and
\* the remainder r of the bits of a above i
DivStep(a, b, i, st) ==
    LET r2 == Shl1(st.r, Bit(a, i))
        ge == st.r[4] >= HalfLimb \/ ~Lt64(r2, b)
    IN  [q |-> IF ge THEN SetBit(st.q, i) ELSE st.q,
         r |-> IF ge THEN Sub64(r2, b) ELSE r2]

\* the rounds for the bits hi down to lo of a, in this order (the range is
\* split in halves only to keep the evaluation shallow).  The remainder stays
\* below b; there is no round to make when it is not, which is b = 0.
RECURSIVE DivRange(_, _, _, _, _)
DivRange(a, b, hi, lo, st) ==
    IF ~Lt64(st.r, b) \/ hi < lo THEN st
    ELSE IF hi = lo THEN DivStep(a, b, hi, st)
    ELSE LET mid == (hi + lo + 1) \div 2
         IN  DivRange(a, b, mid - 1, lo, DivRange(a, b, hi, mid, st))

\* unsigned a / b of C for b # 0: long division over the 64 bits of a
Div64(a, b) ==
    DivRange(a, b, 4 * LimbBits - 1, 0, [q |-> U(0), r |-> U(0)]).q

(***************************************************************************)
(* escape_string                                                           *)
(***************************************************************************)
ZFS_MAX_DATASET_NAME_LEN == 256

\* a buffer without the << 1
EscapeBufSizeHalved == ZFS_MAX_DATASET_NAME_LEN

\* the bytes malloc'ed for the result: ZFS_MAX_DATASET_NAME_LEN << 1
EscapeBufSize == ZFS_MAX_DATASET_NAME_LEN * 2

\* a switch without case '\\'
IsSpecialNoBackslash(ch) == ch \in {" ", ",", "="}

\* the cases of the switch that write a backslash and fall through to default
IsSpecial(ch) == ch \in {" ", ",", "=", "\\"}

\* *d = ch at offset b.d of the buffer (byte i of the buffer is t[i + 1]); a
\* write at or past the end of the allocation is recorded in oob
PutChar(b, ch) ==
    [t |-> IF b.d = Len(b.t) THEN Append(b.t, ch) ELSE [b.t EXCEPT ![b.d + 1] = ch],
     d |-> b.d,
     oob |-> b.oob \/ b.d >= EscapeBufSize]

\* d++
Advance(b) == [b EXCEPT !.d = @ + 1]

\* a switch whose special cases end in a break: the character is not copied
EscapeCharNoFallThrough(b, ch) ==
    IF IsSpecial(ch) THEN Advance(PutChar(b, "\\"))
    ELSE Advance(PutChar(b, ch))

\* the body of the for loop for the character ch = *c, and its d++
EscapeChar(b, ch) ==
    IF IsSpecial(ch) THEN Advance(PutChar(Advance(PutChar(b, "\\")), ch))
    ELSE Advance(PutChar(b, ch))

\* the for loop over the characters lo .. hi of str, in this order, from the
\* buffer b (the range is split in halves only to keep the evaluation shallow).
\* Once a byte has been written outside the allocation the behaviour is
\* undefined: the model stops there and reports oob.
RECURSIVE EscapeRange(_, _, _, _)
EscapeRange(b, str, lo, hi) ==
    IF b.oob \/ lo > hi THEN b
    ELSE IF lo = hi THEN EscapeChar(b, str[lo])
    ELSE LET mid == (lo + hi) \div 2
         IN  EscapeRange(EscapeRange(b, str, lo, mid), str, mid + 1, hi)

\* the buffer when escape_string(str) returns: its bytes t, the offset d of
\* the terminating NUL, and whether a byte was written outside the allocation
EscapeBuffer(str) ==
    PutChar(EscapeRange([t |-> <<>>, d |-> 0, oob |-> FALSE], str, 1, Len(str)),
            "NUL")

\* the C string in a buffer: the bytes before the first NUL
CString(b) == SubSeq(b.t, 1, b.d)

escape_string(str) == CString(EscapeBuffer(str))

(***************************************************************************)
(* Lines of influxdb line protocol.  A line is a record: the measurement,  *)
(* the tags <<key, value>> in the order printed, the fields                *)
(* <<key, type, value>> in the order printed (type "i" for %lui, "s" for   *)
(* a quoted string, "f" for %.2f), and the seconds printed before the nine *)
(* zeros of the timestamp.                                                 *)
(***************************************************************************)
POOL_MEASUREMENT == "zpool_stats"
SCAN_MEASUREMENT == "zpool_scan_stats"

\* the value of the first field of a line printed under key
FieldOf(line, key) ==
    LET i == CHOOSE j \in 1 .. Len(line.fields) :
                 /\ line.fields[j][1] = key
                 /\ \A k \in 1 .. j - 1 : line.fields[k][1] # key
    IN  line.fields[i][3]

FieldKeys(line) == [j \in 1 .. Len(line.fields) |-> line.fields[j][1]]

(***************************************************************************)
(* print_scan_status                                                       *)
(***************************************************************************)
DSS_NUM_STATES == 4
DSS_SCANNING == 1
POOL_SCAN_FUNCS == 3

\* char *state[DSS_NUM_STATES]
state_names == <<"none", "scanning", "finished", "canceled">>

\* a guard that does not look at pss_func
scan_ignored_no_func_check(ps) ==
    ps = NULL \/ Deref(ps).pss_state >= DSS_NUM_STATES

\* the guard that ignores absent or bogus stats
scan_ignored(ps) ==
    \/ ps = NULL
    \/ Deref(ps).pss_state >= DSS_NUM_STATES
    \/ Deref(ps).pss_func >= POOL_SCAN_FUNCS

\* switch (ps->pss_func); POOL_SCAN_REBUILD is no macro in the build modelled
scan_func(f) ==
    CASE f = 0 -> "none_requested"
      [] f = 1 -> "scrub"
      [] f = 2 -> "resilver"
      [] OTHER -> "scan"

\* x ? x : 1
OrOne(x) == IF IsZero(x) THEN U(1) ELSE x

\* examined = ps->pss_examined ? ps->pss_examined : 1
scan_examined(ps) == OrOne(ps.pss_examined)

\* pct_done, a double: 0.0, or 100.0 * num / den kept as the pair of its operands
scan_pct_done(ps) ==
    IF ~IsZero(ps.pss_to_examine)
    THEN [num |-> scan_examined(ps), den |-> ps.pss_to_examine]
    ELSE [num |-> U(0), den |-> U(1)]

\* the #else branch: no pause accounting
paused_ts == U(0)
paused_time == U(0)

\* elapsed left as computed
elapsed_unguarded(e) == e

\* elapsed = (elapsed > 0) ? elapsed : 1, elapsed an int64_t
elapsed_guard(e) == IF Positive64(e) THEN e ELSE U(1)

\* (to_examine - examined) / rate
remaining_of_difference(to_examine, examined, rate) ==
    Div64(Sub64(to_examine, examined), rate)

\* to_examine - examined / rate, in uint64_t
scan_remaining(to_examine, examined, rate) ==
    Sub64(to_examine, Div64(examined, rate))

\* the calculations for this pass and the final guard of rate; now is what
\* time(NULL) returned.  divs lists the divisors of the divisions made, in
\* the order they are made.
scan_pass(ps, now) ==
    IF ps.pss_state = DSS_SCANNING
    THEN LET elapsed == elapsed_guard(
                            Sub64(Sub64(now, ps.pss_pass_start), paused_time))
             pass_exam == OrOne(ps.pss_pass_exam)
             rate == OrOne(Div64(pass_exam, elapsed))
         IN  [pass_exam |-> pass_exam,
              rate |-> OrOne(rate),
              remaining_time |-> scan_remaining(ps.pss_to_examine,
                                                scan_examined(ps), rate),
              divs |-> <<elapsed, rate>>]
    ELSE LET elapsed == elapsed_guard(
                            Sub64(Sub64(ps.pss_end_time, ps.pss_pass_start),
                                  paused_time))
             pass_exam == OrOne(ps.pss_pass_exam)
             rate == Div64(pass_exam, elapsed)
         IN  [pass_exam |-> pass_exam,
              rate |-> OrOne(rate),
              remaining_time |-> U(0),
              divs |-> <<elapsed>>]

\* the divisors of all divisions print_scan_status makes for stats it does
\* not ignore, the floating point one of pct_done included
scan_divisors(ps, now) ==
    (IF ~IsZero(ps.pss_to_examine) THEN <<ps.pss_to_examine>> ELSE <<>>)
        \o scan_pass(ps, now).divs

\* the line the three printf calls write; ts is what the last time(NULL) returned
scan_line(ps, pool_name, now, ts) ==
    LET func == scan_func(ps.pss_func)
        pass == scan_pass(ps, now)
    IN  [measurement |-> SCAN_MEASUREMENT,
         tags |-> << <<"function", func>>,
                     <<"pool", pool_name>>,
                     <<"state", state_names[ps.pss_state + 1]>> >>,
         fields |-> << <<"end_ts", "i", ps.pss_end_time>>,
                       <<"errors", "i", ps.pss_errors>>,
                       <<"examined", "i", scan_examined(ps)>>,
                       <<"function", "s", func>>,
                       <<"pass_examined", "i", pass.pass_exam>>,
                       <<"pause_ts", "i", paused_ts>>,
                       <<"paused_t", "i", paused_time>>,
                       <<"pct_done", "f", scan_pct_done(ps)>>,
                       <<"processed", "i", ps.pss_processed>>,
                       <<"rate", "i", pass.rate>>,
                       <<"remaining_t", "i", pass.remaining_time>>,
                       <<"start_ts", "i", ps.pss_start_time>>,
                       <<"state", "s", state_names[ps.pss_state + 1]>>,
                       <<"to_examine", "i", ps.pss_to_examine>>,
                       <<"to_process", "i", ps.pss_to_process>> >>,
         timestamp |-> ts]

\* print_scan_status(ps, pool_name), ps a pointer: the lines it writes (none or one), the
\* divisors it divided by, and whether it divided an integer by zero, which
\* ends the process before anything is written
print_scan_status(ps, pool_name, now, ts) ==
    IF scan_ignored(ps) THEN [lines |-> <<>>, divs |-> <<>>, fault |-> FALSE]
    ELSE LET divs == scan_divisors(Deref(ps), now)
             fault == \E i \in 1 .. Len(divs) : IsZero(divs[i])
         IN  [lines |-> IF fault THEN <<>>
                        ELSE <<scan_line(Deref(ps), pool_name, now, ts)>>,
              divs |-> divs,
              fault |-> fault]


(***************************************************************************)
(* print_stats                                                             *)
(*                                                                         *)
(* A pool handle zhp is a record: zpool_name, refresh (what                *)
(* zpool_refresh_stats returns), and vdev_tree, a pointer to the nvlist    *)
(* under ZPOOL_CONFIG_VDEV_TREE, which holds the pointers vdev_stats and   *)
(* scan_stats to the arrays under ZPOOL_CONFIG_VDEV_STATS and              *)
(* ZPOOL_CONFIG_SCAN_STATS.  clk holds what the three calls of time(NULL)  *)
(* return: pool for the pool line, pass and scan in print_scan_status.     *)
(***************************************************************************)
CharAt(str, i) == IF i <= Len(str) THEN str[i] ELSE "NUL"

Min(x, y) == IF x <= y THEN x ELSE y

\* strncmp(a, b, n): 0 when no character differs among the first n, up to
\* and including the first NUL
strncmp(a, b, n) ==
    IF \E i \in 1 .. Min(n, Min(Len(a), Len(b)) + 1) : CharAt(a, i) # CharAt(b, i)
    THEN 1 ELSE 0

\* a comparison of the first strlen(data) characters only
pool_selected_by_prefix(zhp, name) ==
    name = NULL \/ strncmp(Deref(name), zhp.zpool_name, Len(Deref(name))) = 0

\* the pool is not skipped by "if not this pool return quickly"
pool_selected(zhp, name) ==
    name = NULL
        \/ strncmp(Deref(name), zhp.zpool_name, ZFS_MAX_DATASET_NAME_LEN) = 0

\* the same value for a missing vdev tree and for missing vdev stats
stats_error_one_code(zhp) ==
    IF zhp.refresh # 0 THEN 1
    ELSE IF zhp.vdev_tree = NULL THEN 2
    ELSE IF Deref(zhp.vdev_tree).vdev_stats = NULL THEN 2
    ELSE 0

\* the value returned early for a selected pool, 0 when none is; the second
\* lookup of the vdev tree cannot fail after the first
stats_error(zhp) ==
    IF zhp.refresh # 0 THEN 1
    ELSE IF zhp.vdev_tree = NULL THEN 2
    ELSE IF Deref(zhp.vdev_tree).vdev_stats = NULL THEN 3
    ELSE IF zhp.vdev_tree = NULL THEN 4
    ELSE 0

\* zpool_state_to_name(vs->vs_state, vs->vs_aux) of libzfs: the label is kept
\* as the call
zpool_state_to_name(st, aux) == <<"zpool_state_to_name", st, aux>>

\* vs->vs_alloc - vs->vs_space
pool_free_swapped(vs) == Sub64(vs.vs_alloc, vs.vs_space)

\* vs->vs_space - vs->vs_alloc
pool_free(vs) == Sub64(vs.vs_space, vs.vs_alloc)

\* the line the three printf calls of print_stats write
pool_line(vs, pool_name, ts) ==
    [measurement |-> POOL_MEASUREMENT,
     tags |-> << <<"name", pool_name>>,
                 <<"state", zpool_state_to_name(vs.vs_state, vs.vs_aux)>> >>,
     fields |-> << <<"alloc", "i", vs.vs_alloc>>,
                   <<"free", "i", pool_free(vs)>>,
                   <<"size", "i", vs.vs_space>>,
                   <<"state", "s", zpool_state_to_name(vs.vs_state, vs.vs_aux)>>,
                   <<"read_bytes", "i", vs.vs_bytes.read>>,
                   <<"read_errors", "i", vs.vs_read_errors>>,
                   <<"read_ops", "i", vs.vs_bytes.read>>,
                   <<"write_bytes", "i", vs.vs_bytes.write>>,
                   <<"write_errors", "i", vs.vs_write_errors>>,
                   <<"write_ops", "i", vs.vs_ops.write>>,
                   <<"checksum_errors", "i", vs.vs_checksum_errors>>,
                   <<"fragmentation", "i", vs.vs_fragmentation>> >>,
     timestamp |-> ts]

\* print_stats(zhp, data): the value returned and the lines written
print_stats(zhp, name, clk) ==
    IF ~pool_selected(zhp, name) THEN [ret |-> 0, lines |-> <<>>]
    ELSE IF stats_error(zhp) # 0 THEN [ret |-> stats_error(zhp), lines |-> <<>>]
    ELSE LET nvroot == Deref(zhp.vdev_tree)
             pool_name == escape_string(zhp.zpool_name)
         IN  [ret |-> 0,
              lines |-> <<pool_line(Deref(nvroot.vdev_stats), pool_name, clk.pool)>>
                        \o print_scan_status(nvroot.scan_stats, pool_name,
                                             clk.pass, clk.scan).lines]

(***************************************************************************)
(* Inputs                                                                  *)
(***************************************************************************)
Alphabet == {" ", ",", "=", "\\", "a", "b"}

RECURSIVE StringsUpTo(_)
StringsUpTo(n) ==
    IF n = 0 THEN {<<>>}
    ELSE LET shorter == StringsUpTo(n - 1)
         IN  shorter \cup {Append(w, ch) : w \in shorter, ch \in Alphabet}

\* the longest name a pool handle holds: zpool_name[] less its NUL
LongestName == ZFS_MAX_DATASET_NAME_LEN - 1

\* every string of at most MaxLen characters, and the longest names made of
\* one character or of two characters in turn
EscapeInputs ==
    StringsUpTo(MaxLen)
        \cup {[i \in 1 .. LongestName |-> ch] : ch \in Alphabet}
        \cup {[i \in 1 .. LongestName |-> IF i % 2 = 1 THEN "\\" ELSE "a"]}

\* counters: the small values, a million, 2^63 and 2^64 - 1
Small == {U(n) : n \in 0 .. MaxVal}
Counters == Small \cup {U(1000000), INT64_MIN, U64_MAX}

\* what time(NULL) returns, as the uint64_t it is converted to: the small
\* values, a date in 2023, and (time_t)-1; and the times a pass started
Times == Small \cup {U(1700000000), U64_MAX}
PassStarts == {U(1), U(1699990000), U64_MAX}

\* a pool_scan_stat_t; the counters that are only printed are fixed
ScanStat(st, fn, to_examine, examined, pass_exam, pass_start, end_time) ==
    [pss_func |-> fn, pss_state |-> st,
     pss_start_time |-> U(1), pss_end_time |-> end_time,
     pss_to_examine |-> to_examine, pss_examined |-> examined,
     pss_to_process |-> U(7), pss_processed |-> U(5), pss_errors |-> U(3),
     pss_pass_exam |-> pass_exam, pss_pass_start |-> pass_start]

\* every state and function, known or not, over the smallest counters
ScanStatsEnums ==
    {ScanStat(st, fn, to, ex, U(1), U(0), U(1)) :
        st \in 0 .. DSS_NUM_STATES, fn \in 0 .. POOL_SCAN_FUNCS,
        to \in {U(0), U(1)}, ex \in {U(0), U(1)}}

\* a scan in progress, over all counters
ScanStatsScanning ==
    {ScanStat(DSS_SCANNING, 1, to, ex, pe, ps, U(0)) :
        to \in Counters, ex \in Counters, pe \in Counters, ps \in PassStarts}

\* a scan that ended, over all pass counters and times
ScanStatsEnded ==
    {ScanStat(2, 2, to, ex, pe, ps, et) :
        to \in {U(0), U(1)}, ex \in {U(0), U(1)}, pe \in Counters,
        ps \in PassStarts, et \in Times}

ScanInputs ==
    {[ps |-> Ptr(p), pool_name |-> <<"a">>, now |-> U(1), ts |-> U(2)] :
        p \in ScanStatsEnums \cup ScanStatsEnded}
    \cup {[ps |-> Ptr(p), pool_name |-> <<"a">>, now |-> t, ts |-> t] :
        p \in ScanStatsScanning, t \in Times}
    \cup {[ps |-> NULL, pool_name |-> <<"a">>, now |-> U(1), ts |-> U(1)]}

(***************************************************************************)
(* The functions on their own: the argument is drawn, the function is      *)
(* called, and its result is kept in ret.                                  *)
(***************************************************************************)
NoRun == data = NULL /\ calls = <<>> /\ out = <<>> /\ exit_code = NULL

InitEscape == pc = "call" /\ arg \in EscapeInputs /\ ret = NULL /\ NoRun

\* t = escape_string(s): ret is the buffer, CString(ret) the string returned
call_escape_string ==
    /\ pc = "call"
    /\ ret' = EscapeBuffer(arg)
    /\ pc' = "return"
    /\ UNCHANGED <<arg, data, calls, out, exit_code>>

NextEscape == call_escape_string

SpecEscape == InitEscape /\ [][NextEscape]_vars

InitScan == pc = "call" /\ arg \in ScanInputs /\ ret = NULL /\ NoRun

call_print_scan_status ==
    /\ pc = "call"
    /\ ret' = print_scan_status(arg.ps, arg.pool_name, arg.now, arg.ts)
    /\ pc' = "return"
    /\ UNCHANGED <<arg, data, calls, out, exit_code>>

NextScan == call_print_scan_status

SpecScan == InitScan /\ [][NextScan]_vars

\* a vdev_stat_t; the counters that are only printed are fixed
VdevStat(alloc, space) ==
    [vs_state |-> 7, vs_aux |-> 0, vs_alloc |-> alloc, vs_space |-> space,
     vs_bytes |-> [read |-> U(11), write |-> U(12)],
     vs_ops |-> [read |-> U(13), write |-> U(14)],
     vs_read_errors |-> U(15), vs_write_errors |-> U(16),
     vs_checksum_errors |-> U(17), vs_fragmentation |-> U(18)]

\* a pool whose refresh succeeds and whose config holds the vdev tree
Pool(name, vs, ps) ==
    [zpool_name |-> name, refresh |-> 0,
     vdev_tree |-> Ptr([vdev_stats |-> vs, scan_stats |-> ps])]

Clock == [pool |-> U(1), pass |-> U(1), scan |-> U(2)]

StatsInputs ==
    {[zhp |-> Pool(<<"a", " ">>, Ptr(VdevStat(al, sp)), ps), data |-> d] :
        al \in Counters \cup {U(100)}, sp \in Counters \cup {U(400)},
        ps \in {NULL, Ptr(ScanStat(DSS_SCANNING, 1, U(2), U(1), U(1), U(0), U(0)))},
        d \in {NULL, Ptr(<<"a">>)}}

InitStats == pc = "call" /\ arg \in StatsInputs /\ ret = NULL /\ NoRun

call_print_stats ==
    /\ pc = "call"
    /\ ret' = print_stats(arg.zhp, arg.data, Clock)
    /\ pc' = "return"
    /\ UNCHANGED <<arg, data, calls, out, exit_code>>

NextStats == call_print_stats

SpecStats == InitStats /\ [][NextStats]_vars

(***************************************************************************)
(* The program.  arg is the command line, argv[0] first.  zpool_iter is    *)
(* libzfs: it calls print_stats for each pool in turn with data, stops at  *)
(* the first call that returns non-zero and returns that value, and        *)
(* returns 0 after the last pool.  The pools and what they report are      *)
(* drawn as zpool_iter reaches them.                                       *)
(***************************************************************************)
PoolNames == {<<"a">>, <<"a", " ">>}

CommandLines ==
    {<<"zpool_influxdb">>}
        \cup {<<"zpool_influxdb", n>> : n \in PoolNames \cup {<<"b">>}}
        \cup {<<"zpool_influxdb", <<"a">>, <<"a", " ">> >>}

RunScanStats ==
    {NULL,
     Ptr(ScanStat(DSS_NUM_STATES, 1, U(2), U(1), U(1), U(0), U(0))),
     Ptr(ScanStat(DSS_SCANNING, POOL_SCAN_FUNCS, U(2), U(1), U(1), U(0), U(0))),
     Ptr(ScanStat(DSS_SCANNING, 1, U(2), U(1), U(1), U(0), U(0)))}

PoolHandles ==
    {Pool(n, Ptr(VdevStat(U(1), U(4))), ps) : n \in PoolNames, ps \in RunScanStats}
        \cup {[Pool(n, NULL, NULL) EXCEPT !.refresh = -1] : n \in PoolNames}
        \cup {[Pool(n, NULL, NULL) EXCEPT !.vdev_tree = NULL] : n \in PoolNames}
        \cup {Pool(n, NULL, NULL) : n \in PoolNames}

Init ==
    /\ pc = "main"
    /\ arg \in CommandLines
    /\ ret = NULL
    /\ data = NULL
    /\ calls = <<>>
    /\ out = <<>>
    /\ exit_code = NULL

\* main up to the call of zpool_iter: data is argv[1], or NULL
main ==
    /\ pc = "main"
    /\ data' = IF Len(arg) > 1 THEN Ptr(arg[2]) ELSE NULL
    /\ pc' = "iter"
    /\ UNCHANGED <<arg, ret, calls, out, exit_code>>

\* zpool_iter calls print_stats for the next pool; a non-zero value ends the
\* iteration and is what main returns
iter_callback ==
    /\ pc = "iter"
    /\ Len(calls) < MaxPools
    /\ \E zhp \in PoolHandles : \E r \in {print_stats(zhp, data, Clock)} :
             /\ calls' = Append(calls, [zhp |-> zhp, ret |-> r.ret, lines |-> r.lines])
             /\ out' = out \o r.lines
             /\ IF r.ret # 0
                THEN pc' = "exit" /\ exit_code' = r.ret
                ELSE UNCHANGED <<pc, exit_code>>
    /\ UNCHANGED <<arg, ret, data>>

\* zpool_iter has no pool left and returns 0, which main returns
iter_return ==
    /\ pc = "iter"
    /\ pc' = "exit"
    /\ exit_code' = 0
    /\ UNCHANGED <<arg, ret, data, calls, out>>

Next == main \/ iter_callback \/ iter_return

Spec == Init /\ [][Next]_vars

(***************************************************************************)
(* Properties of escape_string, under SpecEscape                           *)
(***************************************************************************)
SpecialChars == {" ", ",", "=", "\\"}

\* the special characters of str before position i
SpecialsBefore(str, i) == Cardinality({k \in 1 .. i - 1 : str[k] \in SpecialChars})

CountOf(ch, str) == Cardinality({k \in 1 .. Len(str) : str[k] = ch})

\* o is str with a backslash put before each special character
IsEscapeOf(o, str) ==
    /\ Len(o) = Len(str) + SpecialsBefore(str, Len(str) + 1)
    /\ \A i \in 1 .. Len(str) :
         LET at == i + SpecialsBefore(str, i)
         IN  IF str[i] \in SpecialChars
             THEN o[at] = "\\" /\ o[at + 1] = str[i]
             ELSE o[at] = str[i]

\* C1: for every string of at most 255 characters escape_string returns the
\* string in which each space, comma, equals-sign and backslash is preceded
\* by a backslash and every other character is copied, so a string without
\* these four characters is returned as it is.
C1_EscapeExact ==
    pc = "return" =>
        /\ IsEscapeOf(CString(ret), arg)
        /\ (\A i \in 1 .. Len(arg) : arg[i] \notin SpecialChars) => CString(ret) = arg

C1_Witness ==
    /\ pc = "return"
    /\ arg = <<"a", " ", "=">>
    /\ CString(ret) = <<"a", "\\", " ", "\\", "=">>

\* C6 as stated: the number of backslashes in escape_string(s) equals the
\* number of special characters in s.
C6_BackslashesEqualSpecials ==
    pc = "return" =>
        CountOf("\\", CString(ret)) = SpecialsBefore(arg, Len(arg) + 1)

\* C6 amended: for every string of at most 255 characters, escape_string adds
\* exactly one backslash per special character: the number of backslashes in
\* the result is the number of special characters in s plus the number of
\* backslashes s already holds, and the result is longer than s by the number
\* of special characters.
C6_OneBackslashAddedPerSpecial ==
    pc = "return" =>
        /\ CountOf("\\", CString(ret))
               = SpecialsBefore(arg, Len(arg) + 1) + CountOf("\\", arg)
        /\ Len(CString(ret)) = Len(arg) + SpecialsBefore(arg, Len(arg) + 1)

C6_Witness ==
    /\ pc = "return"
    /\ arg = <<",", "\\", "a">>
    /\ CountOf("\\", CString(ret)) = 3

\* C9: for every name of at most ZFS_MAX_DATASET_NAME_LEN - 1 characters every
\* byte escape_string writes, the NUL included, is inside the
\* 2 * ZFS_MAX_DATASET_NAME_LEN bytes allocated.
C9_WritesInsideBuffer ==
    pc = "return" =>
        /\ ~ret.oob
        /\ ret.d < 2 * ZFS_MAX_DATASET_NAME_LEN
        /\ Len(ret.t) <= 2 * ZFS_MAX_DATASET_NAME_LEN

C9_Witness ==
    /\ pc = "return"
    /\ Len(arg) = ZFS_MAX_DATASET_NAME_LEN - 1
    /\ \A i \in 1 .. Len(arg) : arg[i] \in SpecialChars
    /\ ret.d = 2 * (ZFS_MAX_DATASET_NAME_LEN - 1)

(***************************************************************************)
(* Properties of print_scan_status, under SpecScan                         *)
(***************************************************************************)
\* the stats are present with a known state and a known function
KnownScan(ps) ==
    /\ ps # NULL
    /\ Deref(ps).pss_state < DSS_NUM_STATES
    /\ Deref(ps).pss_func < POOL_SCAN_FUNCS

\* max(1, x) of an unsigned x, and of x read as a signed value
AtLeastOne(x) == IF x = U(0) THEN U(1) ELSE x
SignedAtLeastOne(x) == IF x = U(0) \/ Le64(INT64_MIN, x) THEN U(1) ELSE x

\* C3: for stats with a known state and function no division has a zero
\* divisor and the rate printed is at least 1, whatever the counters and the
\* time are.
C3_NoZeroDivisorRateAtLeastOne ==
    (pc = "return" /\ KnownScan(arg.ps)) =>
        /\ ~ret.fault
        /\ \A i \in 1 .. Len(ret.divs) : ret.divs[i] # U(0)
        /\ Len(ret.lines) = 1
        /\ Le64(U(1), FieldOf(ret.lines[1], "rate"))

C3_Witness ==
    /\ pc = "return"
    /\ KnownScan(arg.ps)
    /\ Deref(arg.ps).pss_state # DSS_SCANNING
    /\ Deref(arg.ps).pss_to_examine = U(0)
    /\ Deref(arg.ps).pss_examined = U(0)
    /\ Deref(arg.ps).pss_pass_exam = U(0)
    /\ Deref(arg.ps).pss_end_time = Deref(arg.ps).pss_pass_start
    /\ Len(ret.lines) = 1
    /\ FieldOf(ret.lines[1], "rate") = U(1)

\* C8: remaining_t is 0 unless the state is scanning; when scanning it is
\* to_examine - (examined / rate) in unsigned 64-bit arithmetic, with examined
\* the examined counter floored to 1 and rate max(1, pass_examined floored to
\* 1 divided by max(1, now - pass_start - paused duration)).
C8_RemainingTime ==
    (pc = "return" /\ KnownScan(arg.ps)) =>
        LET ps == Deref(arg.ps)
            line == ret.lines[1]
            examined == AtLeastOne(ps.pss_examined)
            elapsed == SignedAtLeastOne(
                           Sub64(Sub64(arg.now, ps.pss_pass_start),
                                 FieldOf(line, "paused_t")))
            rate == AtLeastOne(Div64(AtLeastOne(ps.pss_pass_exam), elapsed))
        IN  /\ Len(ret.lines) = 1
            /\ IF ps.pss_state = DSS_SCANNING
               THEN FieldOf(line, "remaining_t")
                        = Sub64(ps.pss_to_examine, Div64(examined, rate))
               ELSE FieldOf(line, "remaining_t") = U(0)

C8_Witness ==
    /\ pc = "return"
    /\ KnownScan(arg.ps)
    /\ Deref(arg.ps).pss_state = DSS_SCANNING
    /\ Len(ret.lines) = 1
    /\ FieldOf(ret.lines[1], "to_examine") = U(2)
    /\ FieldOf(ret.lines[1], "examined") = U(2)
    /\ FieldOf(ret.lines[1], "rate") = U(2)
    /\ FieldOf(ret.lines[1], "remaining_t") = U(1)

\* C10: in every scan line remaining_t is at most to_examine, that is, the
\* unsigned subtraction that computes remaining_t never wraps below zero.
C10_RemainingAtMostToExamine ==
    (pc = "return" /\ Len(ret.lines) = 1) =>
        Le64(FieldOf(ret.lines[1], "remaining_t"),
             FieldOf(ret.lines[1], "to_examine"))

(***************************************************************************)
(* Properties of print_stats, under SpecStats                              *)
(***************************************************************************)
\* C7: the first three fields of a pool line are alloc, free and size in
\* this order, with alloc the allocated bytes, size the total bytes and
\* free = size - alloc, so that alloc + free = size (unsigned 64-bit).
C7_AllocFreeSize ==
    (pc = "return" /\ Len(ret.lines) > 0) =>
        LET line == ret.lines[1]
            vs == Deref(Deref(arg.zhp.vdev_tree).vdev_stats)
        IN  /\ line.measurement = "zpool_stats"
            /\ SubSeq(FieldKeys(line), 1, 3) = <<"alloc", "free", "size">>
            /\ line.fields[1][3] = vs.vs_alloc
            /\ line.fields[3][3] = vs.vs_space
            /\ line.fields[2][3] = Sub64(line.fields[3][3], line.fields[1][3])
            /\ Add64(line.fields[1][3], line.fields[2][3]) = line.fields[3][3]

C7_Witness ==
    /\ pc = "return"
    /\ Len(ret.lines) > 0
    /\ ret.lines[1].fields[1] = <<"alloc", "i", U(100)>>
    /\ ret.lines[1].fields[2] = <<"free", "i", U(300)>>
    /\ ret.lines[1].fields[3] = <<"size", "i", U(400)>>

(***************************************************************************)
(* Properties of a run, under Spec                                         *)
(***************************************************************************)
\* the pool is selected by the command line: no argument, or its exact name
Selected(zhp) == Len(arg) = 1 \/ arg[2] = zhp.zpool_name

RefreshFails(zhp) == zhp.refresh # 0
TreeMissing(zhp) == zhp.vdev_tree = NULL
StatsMissing(zhp) == zhp.vdev_tree # NULL /\ Deref(zhp.vdev_tree).vdev_stats = NULL
Fails(zhp) == RefreshFails(zhp) \/ TreeMissing(zhp) \/ StatsMissing(zhp)

\* the lines of the first n calls, in the order of the calls
RECURSIVE LinesOfCalls(_)
LinesOfCalls(n) ==
    IF n = 0 THEN <<>> ELSE LinesOfCalls(n - 1) \o calls[n].lines

TagOf(line, i) == line.tags[i][2]

\* lines is one pool line of the pool, then at most one scan line of the
\* same pool
PoolThenScan(lines, zhp) ==
    /\ Len(lines) \in {1, 2}
    /\ lines[1].measurement = "zpool_stats"
    /\ lines[1].tags[1][1] = "name"
    /\ IsEscapeOf(TagOf(lines[1], 1), zhp.zpool_name)
    /\ Len(lines) = 2 =>
         /\ lines[2].measurement = "zpool_scan_stats"
         /\ lines[2].tags[2][1] = "pool"
         /\ TagOf(lines[2], 2) = TagOf(lines[1], 1)

\* C2: a processed pool whose scan stats are absent or have an unknown state
\* or function gets its pool line and no scan line, and print_stats returns
\* 0, so the iteration goes on.
C2_BogusScanSkipped ==
    \A i \in 1 .. Len(calls) :
        LET zhp == calls[i].zhp
        IN  (Selected(zhp) /\ ~Fails(zhp)
                /\ ~KnownScan(Deref(zhp.vdev_tree).scan_stats)) =>
                /\ Len(calls[i].lines) = 1
                /\ PoolThenScan(calls[i].lines, zhp)
                /\ calls[i].ret = 0
                /\ (i = Len(calls) /\ pc = "exit") => exit_code = 0

C2_Witness ==
    /\ Len(calls) = 2
    /\ Selected(calls[1].zhp) /\ ~Fails(calls[1].zhp)
    /\ Deref(calls[1].zhp.vdev_tree).scan_stats # NULL
    /\ Deref(Deref(calls[1].zhp.vdev_tree).scan_stats).pss_func >= POOL_SCAN_FUNCS
    /\ Len(calls[1].lines) = 1
    /\ Len(calls[2].lines) = 2
    /\ Len(out) = 3

\* C4: when no selected pool fails, the output is, for each selected pool in
\* iteration order, one pool line followed by at most one scan line of that
\* pool; a pool that is not selected adds nothing; the exit code is 0.
C4_OutputPerSelectedPool ==
    (\A i \in 1 .. Len(calls) : ~(Selected(calls[i].zhp) /\ Fails(calls[i].zhp))) =>
        /\ out = LinesOfCalls(Len(calls))
        /\ \A i \in 1 .. Len(calls) :
             IF Selected(calls[i].zhp)
             THEN PoolThenScan(calls[i].lines, calls[i].zhp)
             ELSE calls[i].lines = <<>>
        /\ pc = "exit" => exit_code = 0

C4_Witness ==
    /\ pc = "exit"
    /\ arg = <<"zpool_influxdb", <<"a", " ">> >>
    /\ Len(calls) = 2
    /\ calls[1].zhp.zpool_name = <<"a">>
    /\ calls[2].zhp.zpool_name = <<"a", " ">>
    /\ Len(out) = 2
    /\ TagOf(out[1], 1) = <<"a", "\\", " ">>
    /\ out[2].measurement = "zpool_scan_stats"
    /\ exit_code = 0

\* C5: a selected pool whose refresh fails, or whose vdev tree or vdev stats
\* are missing, gets no line, print_stats returns 1, 2 or 3 for these, the
\* iteration ends there with the earlier lines kept, and the process exits
\* with that code.
C5_FailureStopsIteration ==
    \A i \in 1 .. Len(calls) :
        LET zhp == calls[i].zhp
        IN  (Selected(zhp) /\ Fails(zhp)) =>
                /\ calls[i].lines = <<>>
                /\ calls[i].ret = (IF RefreshFails(zhp) THEN 1
                                   ELSE IF TreeMissing(zhp) THEN 2 ELSE 3)
                /\ i = Len(calls)
                /\ out = LinesOfCalls(i - 1)
                /\ pc = "exit"
                /\ exit_code = calls[i].ret

C5_Witness ==
    /\ Len(calls) = 2
    /\ Selected(calls[1].zhp) /\ Len(calls[1].lines) = 2
    /\ Selected(calls[2].zhp) /\ StatsMissing(calls[2].zhp)
    /\ out = calls[1].lines
    /\ pc = "exit"
    /\ exit_code = 3
====
